---- MODULE Spec2Model ----
(***************************************************************************)
(* Model of src/stun/packet.go of go-stun: the STUN packet codec           *)
(* (newPacket, newPacketFromBytes, addAttribute, bytes) and the            *)
(* retransmitting request/response exchange (packet.send).                 *)
(*                                                                         *)
(* Bytes are integers 0..255, byte slices are sequences.  A Go slice is    *)
(* modelled with its backing array: data (the len() bytes), cap (the       *)
(* capacity) and fill (the content of the backing bytes behind len()).     *)
(* A nil pointer / nil error is the empty sequence or the string "nil".    *)
(***************************************************************************)
EXTENDS Integers, Sequences, FiniteSets, TLC

(***************************************************************************)
(* Bounds of the model.                                                    *)
(***************************************************************************)
\* longest attribute section (bytes behind the 20-byte header) of a parsed buffer
MaxTail == 8
\* most attributes appended to a built packet
MaxAttrs == 2
\* the discard counter of an exchange saturates here (it restricts nothing)
MaxDiscards == 2
\* most datagrams waiting in the socket's receive queue
MaxQueue == 1

(***************************************************************************)
(* Program constants.                                                      *)
(***************************************************************************)
\* for i := 0; i < 9; i++
MaxAttempts == 9
\* timeout := 100
InitialTimeout == 100
\* if timeout < 1600
MaxTimeout == 1600
\* if len(packetBytes) < 24
MinPacketLen == 24
\* for pos := uint16(20)
HeaderLen == 20
\* make([]byte, 1024)
ReadBufLen == 1024

\* the modulus of uint16 arithmetic (pos, length and packet.length are uint16)
U16 == 65536

(***************************************************************************)
(* Byte helpers: encoding/binary.BigEndian.                                *)
(***************************************************************************)
\* binary.BigEndian.PutUint16
PutUint16(n) == << (n \div 256) % 256, n % 256 >>

\* The byte at 0-based index k of the backing array of slice s.
ByteAt(s, k) == IF k < Len(s.data) THEN s.data[k + 1] ELSE s.fill

\* binary.BigEndian.Uint16(s[k : k+2])
Uint16At(s, k) == ByteAt(s, k) * 256 + ByteAt(s, k + 1)

\* Go's slice expression s[lo:hi] panics unless lo <= hi <= cap(s).
SliceOk(s, lo, hi) == lo <= hi /\ hi <= s.cap

\* The bytes s[lo:hi] (0-based, hi exclusive).
SliceBytes(s, lo, hi) == [k \in 1..(hi - lo) |-> ByteAt(s, lo + k - 1)]

\* A slice whose capacity equals its length.
Exact(bs) == [data |-> bs, cap |-> Len(bs), fill |-> 0]

(***************************************************************************)
(* Attributes and the alignment rule (attribute.go and utils.go of the     *)
(* repository; their text is not part of the sources at hand).             *)
(***************************************************************************)
\* the magic cookie 0x2112A442, big-endian
MagicCookie == << 33, 18, 164, 66 >>

\* alignedLength(n) = ((n + 3) / 4) * 4, on uint16
align(n) == (((n + 3) % U16) \div 4) * 4

\* an attribute of the given type whose length is the value's byte count
newAttribute(types, value) ==
  [types |-> types, length |-> Len(value) % U16, value |-> value]

\* the attribute type codes of the address-bearing attributes
attributeMappedAddress == 1
attributeSourceAddress == 4
attributeChangedAddress == 5
attributeXorMappedAddress == 32
attributeXorMappedAddressExp == 32800

\* bitwise exclusive or of two natural numbers
RECURSIVE BitXor(_, _)
BitXor(a, b) ==
  IF a = 0 THEN b
  ELSE IF b = 0 THEN a
  ELSE (((a % 2) + (b % 2)) % 2) + 2 * BitXor(a \div 2, b \div 2)

\* the Host of a plain address value: reserved byte, family byte, 2-byte
\* port, 4-byte IPv4 address; absent (<< >>) when short or of another family
address(a) ==
  IF Len(a.value) < 8 \/ a.value[2] # 1 THEN << >>
  ELSE << [ip |-> << a.value[5], a.value[6], a.value[7], a.value[8] >>,
           port |-> a.value[3] * 256 + a.value[4]] >>

\* the Host of an XOR-mapped address value: the port is XORed with the
\* first 2 bytes of the transaction ID, the address with its first 4 bytes
xorMappedAddr(a, transId) ==
  IF Len(a.value) < 8 \/ a.value[2] # 1 \/ Len(transId) < 4 THEN << >>
  ELSE << [ip |-> << BitXor(a.value[5], transId[1]), BitXor(a.value[6], transId[2]),
                     BitXor(a.value[7], transId[3]), BitXor(a.value[8], transId[4]) >>,
           port |-> BitXor(a.value[3], transId[1]) * 256 + BitXor(a.value[4], transId[2])] >>

(***************************************************************************)
(* The packet codec.                                                       *)
(***************************************************************************)
\* newPacket with the 12 random bytes rnd that crypto/rand delivered.
newPacket(rnd) ==
  [types |-> 0, length |-> 0, transId |-> MagicCookie \o rnd, attributes |-> << >>]

\* addAttribute counting the unaligned value length
addAttributeUnaligned(v, a) ==
  [v EXCEPT !.attributes = Append(@, a),
            !.length = (@ + a.length + 4) % U16]

\* func (v *packet) addAttribute(a attribute)
addAttribute(v, a) ==
  [v EXCEPT !.attributes = Append(@, a),
            !.length = (@ + align(a.length) + 4) % U16]

\* attributeBytes without the attribute's length field
attributeBytesNoLength(a) == PutUint16(a.types) \o a.value

\* the bytes bytes() appends for one attribute: type, length, value
attributeBytes(a) == PutUint16(a.types) \o PutUint16(a.length) \o a.value

RECURSIVE attributesBytes(_)
attributesBytes(as) ==
  IF as = << >> THEN << >>
  ELSE attributeBytes(Head(as)) \o attributesBytes(Tail(as))

\* func (v *packet) bytes() []byte
bytes(v) ==
  PutUint16(v.types) \o PutUint16(v.length) \o v.transId \o attributesBytes(v.attributes)

\* the last attribute of as whose type is in ts, << >> when there is none
RECURSIVE lastOfTypes(_, _)
lastOfTypes(as, ts) ==
  IF as = << >> THEN << >>
  ELSE IF lastOfTypes(Tail(as), ts) # << >> THEN lastOfTypes(Tail(as), ts)
  ELSE IF Head(as).types \in ts THEN << Head(as) >>
  ELSE << >>

\* for _, a := range v.attributes { if a.types == ... { return ... } }: the
\* first attribute of as whose type is in ts, << >> when there is none
RECURSIVE firstOfTypes(_, _)
firstOfTypes(as, ts) ==
  IF as = << >> THEN << >>
  ELSE IF Head(as).types \in ts THEN << Head(as) >>
  ELSE firstOfTypes(Tail(as), ts)

\* func (v *packet) sourceAddr() *Host
sourceAddr(v) ==
  LET f == firstOfTypes(v.attributes, {attributeSourceAddress})
  IN IF f = << >> THEN << >> ELSE address(f[1])

\* func (v *packet) mappedAddr() *Host
mappedAddr(v) ==
  LET f == firstOfTypes(v.attributes, {attributeMappedAddress})
  IN IF f = << >> THEN << >> ELSE address(f[1])

\* func (v *packet) changeAddr() *Host
changeAddr(v) ==
  LET f == firstOfTypes(v.attributes, {attributeChangedAddress})
  IN IF f = << >> THEN << >> ELSE address(f[1])

\* func (v *packet) xorMappedAddr() *Host
packetXorMappedAddr(v) ==
  LET f == firstOfTypes(v.attributes, {attributeXorMappedAddress, attributeXorMappedAddressExp})
  IN IF f = << >> THEN << >> ELSE xorMappedAddr(f[1], v.transId)

\* results of newPacketFromBytes: a packet, an error, or a run-time panic;
\* oob records that a byte at an index >= len(packetBytes) was read.
ParseOk(packet, oob) == [kind |-> "ok", packet |-> << packet >>, err |-> "nil", oob |-> oob]
ParseErr(msg, oob) == [kind |-> "err", packet |-> << >>, err |-> msg, oob |-> oob]
ParsePanic(oob) == [kind |-> "panic", packet |-> << >>, err |-> "nil", oob |-> oob]

\* the attribute loop of newPacketFromBytes, from cursor pos on
RECURSIVE parseAttributes(_, _, _, _)
parseAttributes(s, pos, packet, oob) ==
  LET n == Len(s.data) % U16
      p2 == (pos + 2) % U16
      p4 == (pos + 4) % U16
  IN
  IF ~(pos < n) THEN ParseOk(packet, oob)
  ELSE IF ~SliceOk(s, pos, p2) THEN ParsePanic(oob)
  ELSE IF ~SliceOk(s, p2, p4) THEN ParsePanic(oob \/ p2 > Len(s.data))
  ELSE
    LET types == Uint16At(s, pos)
        length == Uint16At(s, p2)
        end == (pos + 4 + length) % U16
        oob2 == oob \/ p4 > Len(s.data)
    IN
    IF end > n THEN ParseErr("Received data format mismatch.", oob2)
    ELSE IF ~SliceOk(s, p4, end) THEN ParsePanic(oob2)
    ELSE parseAttributes(s,
                         (pos + align(length) + 4) % U16,
                         addAttribute(packet, newAttribute(types, SliceBytes(s, p4, end))),
                         oob2)

\* newPacketFromBytes with the length check against the 20 header bytes
newPacketFromBytesHeaderOnly(s, rnd) ==
  IF Len(s.data) < HeaderLen THEN ParseErr("Received data length too short.", FALSE)
  ELSE IF rnd = << >> THEN ParseErr("rand", FALSE)
  ELSE parseAttributes(s, HeaderLen,
                       [newPacket(rnd) EXCEPT !.types = Uint16At(s, 0),
                                              !.length = Uint16At(s, 2),
                                              !.transId = SliceBytes(s, 4, 20)],
                       FALSE)

\* func newPacketFromBytes(packetBytes []byte) (*packet, error); rnd is what
\* crypto/rand delivers to the inner newPacket (<< >> when it fails).
newPacketFromBytes(s, rnd) ==
  IF Len(s.data) < MinPacketLen THEN ParseErr("Received data length too short.", FALSE)
  ELSE IF rnd = << >> THEN ParseErr("rand", FALSE)
  ELSE parseAttributes(s, HeaderLen,
                       [newPacket(rnd) EXCEPT !.types = Uint16At(s, 0),
                                              !.length = Uint16At(s, 2),
                                              !.transId = SliceBytes(s, 4, 20)],
                       FALSE)

(***************************************************************************)
(* State.                                                                  *)
(*   packetBytes, rand, parsed : an input of newPacketFromBytes, what      *)
(*       crypto/rand gives its newPacket, and its result                   *)
(*   built, wire, back : a packet under construction, its serialization    *)
(*       and the packet parsed back from it                                *)
(*   calls : history: the attributes passed to addAttribute, in call order *)
(*   hosts : the results of the four address accessors on built            *)
(*   xs : two exchanges on one socket: for each, its request v, position   *)
(*       pc, locals i and timeout, and result ret                          *)
(*   conn : the shared socket: left (ms until its read deadline, 0 when    *)
(*       expired), armedBy (the exchange that set it), queue (the          *)
(*       datagrams received and not yet read)                              *)
(*   rd : history: the reader and the datagram of the step just taken,     *)
(*       when that step was a read                                         *)
(*   lost : history: the exchanges a reply to which was read by the other  *)
(*       exchange while they were blocked in ReadFrom within the deadline  *)
(*       they had set                                                      *)
(*   v : the request packet of the exchange run by v.send(conn, addr)      *)
(*   pc : where send stands: "write" (at conn.WriteTo), "arm" (at          *)
(*       conn.SetReadDeadline), "read" (at conn.ReadFrom), "returned",     *)
(*       "panicked" (a run-time panic unwound send), "idle" (no exchange)  *)
(*   i, timeout : the locals of send                                       *)
(*   now, deadline : the clock (ms) and the read deadline set on conn      *)
(*   ret : what send returned: << >> or << [addr, pkt, err] >>             *)
(*   writes, armed, discards, ev : history: the number of WriteTo calls,   *)
(*       the deadlines armed, the datagrams discarded (saturating), and    *)
(*       the last operation send performed on conn with its outcome        *)
(***************************************************************************)
VARIABLES packetBytes, rand, parsed, built, wire, back, calls, hosts,
          v, pc, i, timeout, now, deadline, ret, writes, armed, discards, ev,
          xs, conn, rd, lost

sendVars == << v, pc, i, timeout, now, deadline, ret, writes, armed, discards, ev >>
vars == << packetBytes, rand, parsed, built, wire, back, calls, hosts,
           v, pc, i, timeout, now, deadline, ret, writes, armed, discards, ev,
           xs, conn, rd, lost >>

parseVars == << packetBytes, rand, parsed >>
buildVars == << built, wire, back, calls, hosts >>
shareVars == << xs, conn, rd, lost >>

\* "no value yet" for the result variables
None == << >>

\* the 12 random bytes crypto/rand may deliver
Rand12 == { [k \in 1..12 |-> 7], [k \in 1..12 |-> 9] }
RandA == [k \in 1..12 |-> 7]
RandB == [k \in 1..12 |-> 9]

(***************************************************************************)
(* newPacketFromBytes applied to byte buffers.                             *)
(***************************************************************************)
\* bytes of an attribute section
TailBytes == {0, 1, 255}
\* a 20-byte header: type 0x0101, length field, transaction ID
HeaderBytes(len) == PutUint16(257) \o PutUint16(len) \o MagicCookie \o RandA
Prefix(bs, k) == [j \in 1..k |-> bs[j]]

\* the buffers: every prefix of a header, and a header followed by up to
\* MaxTail arbitrary bytes
Buffers ==
  { Prefix(HeaderBytes(8), k) : k \in 0..(HeaderLen - 1) }
    \cup { HeaderBytes(len) \o t :
             len \in {0, 8}, t \in UNION { [1..k -> TailBytes] : k \in 0..MaxTail } }

\* the last-operation record
Event(op, n, err, data, raddr, res) ==
  [op |-> op, n |-> n, err |-> err, data |-> data, raddr |-> raddr, res |-> res]
NoEvent == Event("none", 0, "nil", << >>, "nil", None)

BuildIdle ==
  built = None /\ wire = None /\ back = None /\ calls = << >> /\ hosts = None
NoPacket == [types |-> 0, length |-> 0, transId |-> << >>, attributes |-> << >>]
SendIdle ==
  /\ v = NoPacket /\ pc = "idle" /\ i = 0 /\ timeout = 0 /\ now = 0 /\ deadline = 0
  /\ ret = None /\ writes = 0 /\ armed = << >> /\ discards = 0 /\ ev = NoEvent
ParseIdle == packetBytes = Exact(<< >>) /\ rand = None /\ parsed = None
ShareIdle == xs = << >> /\ conn = None /\ rd = None /\ lost = {}

ParseInit ==
  /\ \E bs \in Buffers, slack \in {0, 4} :
       packetBytes = [data |-> bs, cap |-> Len(bs) + slack, fill |-> 0]
  /\ rand \in Rand12 \cup { << >> }
  /\ parsed = None
  /\ BuildIdle
  /\ SendIdle
  /\ ShareIdle

\* the call newPacketFromBytes(packetBytes)
Deserialize ==
  /\ parsed = None
  /\ parsed' = << newPacketFromBytes(packetBytes, rand) >>
  /\ UNCHANGED << packetBytes, rand, buildVars, sendVars, shareVars >>

ParseNext == Deserialize

ParseSpec == ParseInit /\ [][ParseNext]_vars

\* The caller stores byte 0xAA at position 4 or 19 of the buffer after
\* newPacketFromBytes has returned.  packet.transId = packetBytes[4:20] is a
\* slice of the buffer's backing array, so the store shows through it.
OverwriteBuffer ==
  /\ parsed # None
  /\ parsed[1].kind # "panic"
  /\ \E p \in {4, 19} :
       /\ p < Len(packetBytes.data)
       /\ packetBytes.data[p + 1] # 170
       /\ packetBytes' = [packetBytes EXCEPT !.data[p + 1] = 170]
  /\ parsed' = IF parsed[1].kind = "ok"
               THEN << [parsed[1] EXCEPT
                          !.packet[1].transId = SliceBytes(packetBytes', 4, 20)] >>
               ELSE parsed
  /\ UNCHANGED << rand, buildVars, sendVars, shareVars >>

AliasNext == Deserialize \/ OverwriteBuffer

AliasSpec == ParseInit /\ [][AliasNext]_vars

(***************************************************************************)
(* Packets built by newPacket and addAttribute, serialized by bytes() and  *)
(* parsed back by newPacketFromBytes.                                      *)
(***************************************************************************)
\* longest attribute value of a built packet
MaxValLen == 5
ValBytes == {3, 7}
AttrTypes == {1, 32}
\* well-formed attributes: the declared length is the value's byte count
Attributes ==
  { newAttribute(t, [j \in 1..k |-> b]) : t \in AttrTypes, k \in 0..MaxValLen, b \in ValBytes }

BuildInit ==
  /\ \E rnd \in Rand12, t \in {1, 257} :
       built = << [newPacket(rnd) EXCEPT !.types = t] >>
  /\ wire = None
  /\ back = None
  /\ calls = << >>
  /\ hosts = None
  /\ ParseIdle
  /\ SendIdle
  /\ ShareIdle

\* v.addAttribute(a)
AddAttribute ==
  /\ wire = None
  /\ Len(built[1].attributes) < MaxAttrs
  /\ \E a \in Attributes :
       /\ built' = << addAttribute(built[1], a) >>
       /\ calls' = Append(calls, a)
  /\ UNCHANGED << wire, back, hosts, parseVars, sendVars, shareVars >>

\* b := v.bytes(); newPacketFromBytes(b): append() may leave spare capacity
\* behind the serialized bytes
RoundTrip ==
  /\ wire = None
  /\ wire' = << bytes(built[1]) >>
  /\ \E slack \in {0, 4}, rnd \in Rand12 :
       back' = << newPacketFromBytes(
                    [data |-> bytes(built[1]), cap |-> Len(bytes(built[1])) + slack, fill |-> 0],
                    rnd) >>
  /\ UNCHANGED << built, calls, hosts, parseVars, sendVars, shareVars >>

BuildNext == AddAttribute \/ RoundTrip

BuildSpec == BuildInit /\ [][BuildNext]_vars

(***************************************************************************)
(* Packets built by newPacket and addAttribute, with attribute values up   *)
(* to the largest a uint16 length can declare, and serialized by bytes().  *)
(***************************************************************************)
\* an attribute whose value has 65532 bytes (a multiple of 4)
LargeAttributes == { newAttribute(1, [j \in 1..65532 |-> 0]) }

AppendInit ==
  /\ built = << [newPacket(RandA) EXCEPT !.types = 1] >>
  /\ wire = None
  /\ back = None
  /\ calls = << >>
  /\ hosts = None
  /\ ParseIdle
  /\ SendIdle
  /\ ShareIdle

\* v.addAttribute(a) with a large attribute
AddLargeAttribute ==
  /\ wire = None
  /\ Len(built[1].attributes) < MaxAttrs
  /\ \E a \in LargeAttributes :
       /\ built' = << addAttribute(built[1], a) >>
       /\ calls' = Append(calls, a)
  /\ UNCHANGED << wire, back, hosts, parseVars, sendVars, shareVars >>

\* b := v.bytes()
Serialize ==
  /\ wire = None
  /\ wire' = << bytes(built[1]) >>
  /\ UNCHANGED << built, back, calls, hosts, parseVars, sendVars, shareVars >>

AppendNext == AddAttribute \/ AddLargeAttribute \/ Serialize

AppendSpec == AppendInit /\ [][AppendNext]_vars

(***************************************************************************)
(* The address accessors on packets carrying address attributes.           *)
(***************************************************************************)
\* attribute values: 203.0.113.5:54321, 192.0.2.1:3478, and a short value
AddressValues ==
  { << 0, 1, 212, 49, 203, 0, 113, 5 >>, << 0, 1, 13, 150, 192, 0, 2, 1 >>, << 0, 1 >> }
\* the address-bearing types and CHANGE-REQUEST (3), which no accessor reads
AddressAttributes ==
  { newAttribute(t, val) :
      t \in { attributeMappedAddress, attributeSourceAddress, attributeChangedAddress,
              attributeXorMappedAddress, attributeXorMappedAddressExp, 3 },
      val \in AddressValues }

AccessInit ==
  /\ built = << [newPacket(RandA) EXCEPT !.types = 257] >>
  /\ wire = None
  /\ back = None
  /\ calls = << >>
  /\ hosts = None
  /\ ParseIdle
  /\ SendIdle
  /\ ShareIdle

\* v.addAttribute(a) with an address attribute
AddAddressAttribute ==
  /\ hosts = None
  /\ Len(built[1].attributes) < MaxAttrs
  /\ \E a \in AddressAttributes :
       /\ built' = << addAttribute(built[1], a) >>
       /\ calls' = Append(calls, a)
  /\ UNCHANGED << wire, back, hosts, parseVars, sendVars, shareVars >>

\* v.sourceAddr(), v.mappedAddr(), v.changeAddr(), v.xorMappedAddr()
Access ==
  /\ hosts = None
  /\ hosts' = << [source |-> sourceAddr(built[1]),
                  mapped |-> mappedAddr(built[1]),
                  changed |-> changeAddr(built[1]),
                  xorMapped |-> packetXorMappedAddr(built[1])] >>
  /\ UNCHANGED << built, wire, back, calls, parseVars, sendVars, shareVars >>

AccessNext == AddAddressAttribute \/ Access

AccessSpec == AccessInit /\ [][AccessNext]_vars

(***************************************************************************)
(* The exchange: func (v *packet) send(conn, addr).                        *)
(***************************************************************************)
\* what send returns: (net.Addr, *packet, error)
Return(addr, pkt, err) == << [addr |-> addr, pkt |-> pkt, err |-> err] >>

\* the requests: a binding request, alone or with a CHANGE-REQUEST attribute
Requests ==
  { [newPacket(rnd) EXCEPT !.types = 1] : rnd \in Rand12 }
    \cup { addAttribute([newPacket(rnd) EXCEPT !.types = 1], newAttribute(3, << 0, 0, 0, 0 >>)) :
             rnd \in Rand12 }

\* attribute sections of inbound datagrams: none, a MAPPED-ADDRESS
\* (203.0.113.5:54321), an empty attribute, an unpadded 1-byte attribute, an
\* attribute declaring 8 bytes with 2 present, an attribute declaring 65535
Tails ==
  { << >>,
    << 0, 1, 0, 8, 0, 1, 212, 49, 203, 0, 113, 5 >>,
    << 0, 1, 0, 0 >>,
    << 0, 1, 0, 1, 9 >>,
    << 0, 1, 0, 8, 0, 1 >>,
    << 0, 1, 255, 255 >> }

\* the inbound datagrams: the empty one, a truncated header, and binding
\* responses carrying one of the transaction IDs
Datagrams ==
  { << >>, Prefix(HeaderBytes(0), 10) }
    \cup { PutUint16(257) \o PutUint16(Len(t)) \o MagicCookie \o rnd \o t :
             rnd \in Rand12, t \in Tails }

Senders == { "server", "other" }

\* newPacketFromBytes on packetBytes[0:length] of the 1024-byte read buffer
parseDatagram[d \in Datagrams, rnd \in Rand12 \cup { << >> }] ==
  newPacketFromBytes([data |-> d, cap |-> ReadBufLen, fill |-> 0], rnd)

\* writeOutcome without the check of the byte count
writeOutcomeNoLengthCheck(length, err, want) ==
  IF err # "nil" THEN Return("nil", << >>, err) ELSE None

\* lines 149-155: the outcome of conn.WriteTo returning (length, err) for a
\* request of want bytes
writeOutcome(length, err, want) ==
  IF err # "nil" THEN Return("nil", << >>, err)
  ELSE IF length # want THEN Return("nil", << >>, "Error in sending data.")
  ELSE None

\* nextTimeout without the cap
nextTimeoutUncapped(t) == t * 2

\* lines 160-162: the timeout of the next attempt
nextTimeout(t) == IF t < MaxTimeout THEN t * 2 ELSE t

\* readDisposition without the comparison of the transaction IDs
readDispositionNoCompare(req, res) ==
  IF res.kind = "panic" \/ res.packet = << >> THEN "panic" ELSE "return"

\* readDisposition with the comparison inverted
readDispositionInverted(req, res) ==
  IF res.kind = "panic" \/ res.packet = << >> THEN "panic"
  ELSE IF req.transId = res.packet[1].transId THEN "continue"
  ELSE "return"

\* lines 172-179: what send does with the result res of newPacketFromBytes
\* on a datagram from raddr: "panic" (pkt is nil, or the parse panicked),
\* "continue" (the transaction IDs differ) or "return"
readDisposition(req, res) ==
  IF res.kind = "panic" \/ res.packet = << >> THEN "panic"
  ELSE IF req.transId # res.packet[1].transId THEN "continue"
  ELSE "return"

Init ==
  /\ v \in Requests
  /\ pc = "write"
  /\ i = 0
  /\ timeout = InitialTimeout
  /\ now = 0
  /\ deadline = 0
  /\ ret = None
  /\ writes = 0
  /\ armed = << >>
  /\ discards = 0
  /\ ev = NoEvent
  /\ ParseIdle
  /\ BuildIdle
  /\ ShareIdle

\* WriteTo drawing a fresh transaction ID for every transmission
WriteToFreshId ==
  /\ pc = "write"
  /\ \E length \in {0, Len(bytes(v)) - 1, Len(bytes(v))}, err \in {"nil", "write failed"},
        rnd \in Rand12 :
       /\ v' = [v EXCEPT !.transId = MagicCookie \o rnd]
       /\ ev' = Event("write", length, err, bytes(v'), "nil", None)
       /\ ret' = writeOutcome(length, err, Len(bytes(v)))
       /\ pc' = IF writeOutcome(length, err, Len(bytes(v))) = None THEN "arm" ELSE "returned"
  /\ writes' = writes + 1
  /\ UNCHANGED << i, timeout, now, deadline, armed, discards, parseVars, buildVars, shareVars >>

\* length, err := conn.WriteTo(v.bytes(), addr), and the two checks on it
WriteTo ==
  /\ pc = "write"
  /\ \E length \in {0, Len(bytes(v)) - 1, Len(bytes(v))}, err \in {"nil", "write failed"} :
       /\ ev' = Event("write", length, err, bytes(v), "nil", None)
       /\ ret' = writeOutcome(length, err, Len(bytes(v)))
       /\ pc' = IF writeOutcome(length, err, Len(bytes(v))) = None THEN "arm" ELSE "returned"
  /\ writes' = writes + 1
  /\ UNCHANGED << v, i, timeout, now, deadline, armed, discards, parseVars, buildVars, shareVars >>

\* err = conn.SetReadDeadline(time.Now().Add(timeout ms)), then the doubling
SetReadDeadline ==
  /\ pc = "arm"
  /\ \/ /\ ev' = Event("arm", 0, "nil", << >>, "nil", None)
        /\ deadline' = now + timeout
        /\ armed' = Append(armed, [at |-> now, deadline |-> now + timeout])
        /\ timeout' = nextTimeout(timeout)
        /\ pc' = "read"
        /\ UNCHANGED ret
     \/ /\ ev' = Event("arm", 0, "deadline failed", << >>, "nil", None)
        /\ ret' = Return("nil", << >>, "deadline failed")
        /\ pc' = "returned"
        /\ UNCHANGED << deadline, armed, timeout >>
  /\ UNCHANGED << v, i, now, writes, discards, parseVars, buildVars, shareVars >>

\* time passes while send is blocked in conn.ReadFrom
Tick ==
  /\ pc = "read"
  /\ now < deadline
  /\ now' = now + 400
  /\ UNCHANGED << v, pc, i, timeout, deadline, ret, writes, armed, discards, ev,
                  parseVars, buildVars, shareVars >>

\* ReadTimeout giving up at the first timeout
ReadTimeoutNoRetry ==
  /\ pc = "read"
  /\ now >= deadline
  /\ ev' = Event("read", 0, "timeout", << >>, "nil", None)
  /\ i' = i + 1
  /\ pc' = "returned"
  /\ ret' = Return("nil", << >>, "nil")
  /\ UNCHANGED << v, timeout, now, deadline, writes, armed, discards, parseVars, buildVars, shareVars >>

\* conn.ReadFrom fails with a net.Error whose Timeout() is true: break, i++,
\* and the loop test i < 9
ReadTimeout ==
  /\ pc = "read"
  /\ now >= deadline
  /\ ev' = Event("read", 0, "timeout", << >>, "nil", None)
  /\ i' = i + 1
  /\ IF i + 1 < MaxAttempts
       THEN pc' = "write" /\ UNCHANGED ret
       ELSE pc' = "returned" /\ ret' = Return("nil", << >>, "nil")
  /\ UNCHANGED << v, timeout, now, deadline, writes, armed, discards, parseVars, buildVars, shareVars >>

\* conn.ReadFrom fails otherwise: with a net.Error that is no timeout (the
\* error is returned), or with an error that is no net.Error (the type
\* assertion err.(net.Error) panics)
ReadError ==
  /\ pc = "read"
  /\ \/ /\ ev' = Event("read", 0, "net error", << >>, "nil", None)
        /\ ret' = Return("nil", << >>, "net error")
        /\ pc' = "returned"
     \/ /\ ev' = Event("read", 0, "other error", << >>, "nil", None)
        /\ pc' = "panicked"
        /\ UNCHANGED ret
  /\ UNCHANGED << v, i, timeout, now, deadline, writes, armed, discards, parseVars, buildVars, shareVars >>

\* conn.ReadFrom delivers a datagram into a fresh 1024-byte buffer; it is
\* parsed and its transaction ID compared
ReadDatagram ==
  /\ pc = "read"
  /\ now < deadline
  /\ \E d \in Datagrams, raddr \in Senders, rnd \in Rand12 \cup { << >> } :
       LET res == parseDatagram[d, rnd]
           what == readDisposition(v, res)
       IN
       /\ ev' = Event("read", Len(d), "nil", d, raddr, << res >>)
       /\ \/ /\ what = "panic"
             /\ pc' = "panicked"
             /\ UNCHANGED << ret, discards >>
          \/ /\ what = "continue"
             /\ discards' = IF discards < MaxDiscards THEN discards + 1 ELSE discards
             /\ UNCHANGED << pc, ret >>
          \/ /\ what = "return"
             /\ ret' = Return(raddr, res.packet, res.err)
             /\ pc' = "returned"
             /\ UNCHANGED discards
  /\ UNCHANGED << v, i, timeout, now, deadline, writes, armed, parseVars, buildVars, shareVars >>

Next == WriteTo \/ SetReadDeadline \/ Tick \/ ReadTimeout \/ ReadError \/ ReadDatagram

Spec == Init /\ [][Next]_vars

(***************************************************************************)
(* Two exchanges, A and B, running send concurrently on one socket.        *)
(***************************************************************************)
Exchanges == { "A", "B" }

\* the binding requests of the two exchanges
ShareRequest(x) == [newPacket(IF x = "A" THEN RandA ELSE RandB) EXCEPT !.types = 1]

\* a binding response to exchange x carrying MAPPED-ADDRESS 203.0.113.5:54321
Reply(x) ==
  PutUint16(257) \o PutUint16(12) \o ShareRequest(x).transId
    \o << 0, 1, 0, 8, 0, 1, 212, 49, 203, 0, 113, 5 >>

\* has exchange x put its request on the wire
HasWritten(x) == xs[x].i > 0 \/ xs[x].pc \in { "arm", "read" }

\* is exchange x still inside send
Running(x) == xs[x].pc \in { "write", "arm", "read" }

ShareInit ==
  /\ xs = [x \in Exchanges |->
            [v |-> ShareRequest(x), pc |-> "write", i |-> 0,
             timeout |-> InitialTimeout, ret |-> None]]
  /\ conn = << [left |-> 0, armedBy |-> "none", queue |-> << >>] >>
  /\ rd = None
  /\ lost = {}
  /\ ParseIdle
  /\ BuildIdle
  /\ SendIdle

\* length, err := conn.WriteTo(v.bytes(), addr) in one exchange, and the
\* two checks on it
SharedWriteTo ==
  /\ \E x \in Exchanges :
       /\ xs[x].pc = "write"
       /\ \E length \in { Len(bytes(xs[x].v)) - 1, Len(bytes(xs[x].v)) } :
            LET out == writeOutcome(length, "nil", Len(bytes(xs[x].v)))
            IN xs' = [xs EXCEPT ![x].ret = out,
                                ![x].pc = IF out = None THEN "arm" ELSE "returned"]
  /\ rd' = None
  /\ UNCHANGED << conn, lost, parseVars, buildVars, sendVars >>

\* conn.SetReadDeadline(time.Now().Add(timeout ms)) in one exchange, then
\* the doubling: the deadline is the socket's, whoever reads
SharedSetReadDeadline ==
  /\ \E x \in Exchanges :
       /\ xs[x].pc = "arm"
       /\ conn' = << [conn[1] EXCEPT !.left = xs[x].timeout, !.armedBy = x] >>
       /\ xs' = [xs EXCEPT ![x].timeout = nextTimeout(xs[x].timeout), ![x].pc = "read"]
  /\ rd' = None
  /\ UNCHANGED << lost, parseVars, buildVars, sendVars >>

\* time passes until the socket's read deadline while an exchange is
\* blocked in conn.ReadFrom
SharedTick ==
  /\ \E x \in Exchanges : xs[x].pc = "read"
  /\ conn[1].left > 0
  /\ conn' = << [conn[1] EXCEPT !.left = 0] >>
  /\ rd' = None
  /\ UNCHANGED << xs, lost, parseVars, buildVars, sendVars >>

\* a datagram arrives at the socket: a reply to an exchange that has
\* written its request, or an empty datagram
Deliver ==
  /\ \E x \in Exchanges : Running(x)
  /\ Len(conn[1].queue) < MaxQueue
  /\ \E d \in { Reply(x) : x \in { y \in Exchanges : HasWritten(y) } } \cup { << >> } :
       conn' = << [conn[1] EXCEPT !.queue = Append(conn[1].queue, d)] >>
  /\ rd' = None
  /\ UNCHANGED << xs, lost, parseVars, buildVars, sendVars >>

\* conn.ReadFrom times out in one exchange: break, i++, and the loop test
SharedReadTimeout ==
  /\ \E x \in Exchanges :
       /\ xs[x].pc = "read"
       /\ conn[1].left = 0
       /\ xs' = [xs EXCEPT
                   ![x].i = xs[x].i + 1,
                   ![x].pc = IF xs[x].i + 1 < MaxAttempts THEN "write" ELSE "returned",
                   ![x].ret = IF xs[x].i + 1 < MaxAttempts THEN xs[x].ret
                              ELSE Return("nil", << >>, "nil")]
  /\ rd' = None
  /\ UNCHANGED << conn, lost, parseVars, buildVars, sendVars >>

\* SharedReadDatagram putting a datagram with another transaction ID back
\* at the end of the socket's queue
SharedReadDatagramRequeue ==
  /\ \E x \in Exchanges, rnd \in Rand12 :
       /\ xs[x].pc = "read"
       /\ conn[1].left > 0
       /\ conn[1].queue # << >>
       /\ LET d == Head(conn[1].queue)
              res == parseDatagram[d, rnd]
              what == readDisposition(xs[x].v, res)
          IN
          /\ conn' = << [conn[1] EXCEPT !.queue = IF what = "continue"
                                                    THEN Append(Tail(conn[1].queue), d)
                                                    ELSE Tail(conn[1].queue)] >>
          /\ rd' = << [by |-> x, data |-> d] >>
          /\ xs' = IF what = "panic"
                     THEN [y \in Exchanges |-> [xs[y] EXCEPT !.pc = "panicked"]]
                   ELSE IF what = "continue" THEN xs
                   ELSE [xs EXCEPT ![x].ret = Return("server", res.packet, res.err),
                                   ![x].pc = "returned"]
          /\ lost' = lost
  /\ UNCHANGED << parseVars, buildVars, sendVars >>

\* conn.ReadFrom in one exchange takes the first datagram of the socket's
\* queue into a fresh buffer; it is parsed and its transaction ID compared
\* with that exchange's.  A panic ends the process, so both exchanges.
SharedReadDatagram ==
  /\ \E x \in Exchanges, rnd \in Rand12 :
       /\ xs[x].pc = "read"
       /\ conn[1].left > 0
       /\ conn[1].queue # << >>
       /\ LET d == Head(conn[1].queue)
              res == parseDatagram[d, rnd]
              what == readDisposition(xs[x].v, res)
          IN
          /\ conn' = << [conn[1] EXCEPT !.queue = Tail(conn[1].queue)] >>
          /\ rd' = << [by |-> x, data |-> d] >>
          /\ xs' = IF what = "panic"
                     THEN [y \in Exchanges |-> [xs[y] EXCEPT !.pc = "panicked"]]
                   ELSE IF what = "continue" THEN xs
                   ELSE [xs EXCEPT ![x].ret = Return("server", res.packet, res.err),
                                   ![x].pc = "returned"]
          /\ lost' = IF what = "continue"
                       THEN lost \cup { y \in Exchanges :
                                          /\ res.packet[1].transId = xs[y].v.transId
                                          /\ xs[y].pc = "read"
                                          /\ conn[1].armedBy = y }
                     ELSE lost
  /\ UNCHANGED << parseVars, buildVars, sendVars >>

ShareNext ==
  \/ SharedWriteTo \/ SharedSetReadDeadline \/ SharedTick \/ Deliver
  \/ SharedReadTimeout \/ SharedReadDatagram

ShareSpec == ShareInit /\ [][ShareNext]_vars

(***************************************************************************)
(* Properties of the exchange.                                             *)
(***************************************************************************)
\* the last operation read a datagram that parsed to a packet
ReadParsed(e) == e.op = "read" /\ e.err = "nil" /\ e.res # None /\ e.res[1].kind = "ok"
\* ... whose transaction ID differs from / equals the request's
ReadMismatch(e) == ReadParsed(e) /\ e.res[1].packet[1].transId # v.transId
ReadMatch(e) == ReadParsed(e) /\ e.res[1].packet[1].transId = v.transId
\* the last operation read a datagram that did not parse to a packet
ReadUndecodable(e) == e.op = "read" /\ e.err = "nil" /\ e.res # None /\ e.res[1].kind # "ok"
\* the last operation was a write that failed or was short
WriteFailed(e) == e.op = "write" /\ (e.err # "nil" \/ e.n # Len(bytes(v)))
\* send is over: it returned or a panic unwound it
Ended == pc \in {"returned", "panicked"}

\* C1: a step that reads a datagram which parses and whose transaction ID
\* differs from the request's leaves send reading: nothing is returned, no
\* write is made, the deadline, the armed deadlines, the attempt counter and
\* the timeout are unchanged.
C1_MismatchDiscarded ==
  [][ (pc = "read" /\ ReadMismatch(ev'))
        => /\ pc' = "read"
           /\ ret' = None
           /\ writes' = writes
           /\ deadline' = deadline
           /\ armed' = armed
           /\ i' = i
           /\ timeout' = timeout ]_vars

\* C1 witness: in a later attempt, a mismatched datagram has just been
\* discarded, not the first one, and send is still reading.
C1_Witness ==
  ReadMismatch(ev) /\ discards = MaxDiscards /\ i >= 1 /\ pc = "read" /\ ret = None

\* C2: when the last operation read a datagram that parses and carries the
\* request's transaction ID, send has returned that datagram's sender and
\* parsed packet with no error, and it was the last operation of the
\* exchange: one write and one armed deadline per attempt begun, none more.
C2_MatchReturns ==
  ReadMatch(ev)
    => /\ pc = "returned"
       /\ ret = Return(ev.raddr, ev.res[1].packet, "nil")
       /\ writes = i + 1
       /\ Len(armed) = i + 1

\* C2 witness: a matching reply read in the first attempt, after one write.
C2_Witness ==
  ReadMatch(ev) /\ i = 0 /\ writes = 1 /\ pc = "returned" /\ ev.raddr = "server"

\* C3: an exchange that is over without a matching datagram read and
\* without a transport fault made exactly 9 writes and returned no address,
\* no response and no error; no exchange makes more than 9 writes or a write
\* before the previous attempt's read timed out.
C3_ExhaustionAfterNineWrites ==
  /\ writes <= MaxAttempts
  /\ writes \in {i, i + 1}
  /\ (Ended /\ ~ReadMatch(ev) /\ ~WriteFailed(ev) /\ ev.err \in {"nil", "timeout"})
       => /\ pc = "returned"
          /\ writes = MaxAttempts
          /\ ret = Return("nil", << >>, "nil")

\* the backoff schedule
Backoff == << 100, 200, 400, 800, 1600, 1600, 1600, 1600, 1600 >>

\* C4: the deadline armed for attempt k is the time of arming plus
\* 100, 200, 400, 800, 1600, 1600, 1600, 1600, 1600 ms, whatever the
\* attempts received; at most 9 deadlines are armed and the deadline in
\* force is the one armed last.
C4_BackoffSchedule ==
  /\ Len(armed) <= MaxAttempts
  /\ \A k \in 1..Len(armed) : armed[k].deadline = armed[k].at + Backoff[k]
  /\ Len(armed) > 0 => deadline = armed[Len(armed)].deadline

\* C4 witness: an exchange that timed out on all 9 attempts, having
\* discarded datagrams on the way.
C4_Witness ==
  /\ pc = "returned" /\ ret = Return("nil", << >>, "nil")
  /\ Len(armed) = MaxAttempts /\ discards > 0

\* C5: when the last operation was a write that reported an error or a byte
\* count other than the request's length, send has returned an error and no
\* response, with no deadline armed for that attempt and no read after it.
C5_WriteFailureIsFatal ==
  WriteFailed(ev)
    => /\ pc = "returned"
       /\ ret # None /\ ret[1].err # "nil" /\ ret[1].pkt = << >> /\ ret[1].addr = "nil"
       /\ writes = i + 1
       /\ Len(armed) = i

\* C5 witness: a short write without error, in a retransmission.
C5_Witness ==
  WriteFailed(ev) /\ ev.err = "nil" /\ ev.n = Len(bytes(v)) - 1 /\ i >= 1 /\ pc = "returned"

\* C6: after a read that timed out send is at the next write or has returned
\* the exhausted outcome; after a read that failed otherwise send has
\* returned that error and no response.
C6_ReadErrorHandling ==
  /\ (ev.op = "read" /\ ev.err = "timeout")
       => \/ pc = "write" /\ i < MaxAttempts /\ ret = None
          \/ pc = "returned" /\ i = MaxAttempts /\ ret = Return("nil", << >>, "nil")
  /\ (ev.op = "read" /\ ev.err \notin {"nil", "timeout"})
       => pc = "returned" /\ ret = Return("nil", << >>, ev.err)

\* C7: after reading a datagram that does not deserialize, send is still
\* reading under the same deadline and has returned nothing.
C7_UndecodableDiscarded ==
  ReadUndecodable(ev)
    => /\ pc = "read"
       /\ ret = None
       /\ Len(armed) = i + 1
       /\ deadline = armed[Len(armed)].deadline

(***************************************************************************)
(* Properties of the codec.                                                *)
(***************************************************************************)
\* C8: a packet with at least one well-formed attribute, serialized by
\* bytes() and parsed by newPacketFromBytes, comes back with the same type,
\* length field, transaction ID and attribute sequence.
C8_RoundTrip ==
  (back # None /\ Len(built[1].attributes) >= 1)
    => /\ back[1].kind = "ok"
       /\ back[1].packet = built

\* C9: on a buffer of at least 24 bytes newPacketFromBytes returns a packet
\* or a framing error, does not panic and reads no byte at or behind
\* len(packetBytes); when the first attribute's header plus declared length
\* passes the buffer end it returns the framing error.
C9_NoReadOutOfBounds ==
  (parsed # None /\ rand # None /\ Len(packetBytes.data) >= MinPacketLen)
    => /\ parsed[1].kind \in {"ok", "err"}
       /\ ~parsed[1].oob
       /\ (HeaderLen + 4 + Uint16At(packetBytes, HeaderLen + 2) > Len(packetBytes.data))
            => (parsed[1].kind = "err" /\ parsed[1].err = "Received data format mismatch.")

\* C10: on a buffer of fewer than 24 bytes newPacketFromBytes returns the
\* framing error and no packet; an accepted buffer has at least 24 bytes and
\* gives the packet its type and transaction ID from the header; the 24
\* bytes of a header and one empty attribute are accepted.
C10_ShortBufferRejected ==
  parsed # None
    => /\ Len(packetBytes.data) < MinPacketLen
            => parsed[1] = ParseErr("Received data length too short.", FALSE)
       /\ parsed[1].kind = "ok"
            => /\ Len(packetBytes.data) >= MinPacketLen
               /\ parsed[1].packet[1].types = Uint16At(packetBytes, 0)
               /\ parsed[1].packet[1].transId = SliceBytes(packetBytes, 4, 20)
       /\ (Len(packetBytes.data) = MinPacketLen /\ rand # None
             /\ Uint16At(packetBytes, HeaderLen + 2) = 0)
            => parsed[1].kind = "ok"

\* C10 witness: a 23-byte buffer has been rejected.
C10_Witness ==
  parsed # None /\ Len(packetBytes.data) = MinPacketLen - 1 /\ parsed[1].kind = "err"

(***************************************************************************)
(* Properties of packets under construction.                               *)
(***************************************************************************)
\* alignedLength(n) = ((n + 3) / 4) * 4 on the natural numbers
AlignedLength(n) == ((n + 3) \div 4) * 4

\* the sum over the attributes of 4 + alignedLength(value length)
RECURSIVE AttributeSectionLength(_)
AttributeSectionLength(as) ==
  IF as = << >> THEN 0
  ELSE 4 + AlignedLength(Len(Head(as).value)) + AttributeSectionLength(Tail(as))

\* C11 as stated: after every sequence of addAttribute calls on a packet of
\* newPacket the length field equals the sum over the attributes of
\* 4 + alignedLength(value length), and the attributes are the appended ones
\* in call order.
C11_LengthIsSum ==
  built # None
    => /\ built[1].length = AttributeSectionLength(built[1].attributes)
       /\ built[1].attributes = calls

\* C11 amended: the length field equals that sum modulo 2^16 (the sum itself
\* while it is below 65536), and the attributes are the appended ones in
\* call order.
C11_LengthIsSumMod ==
  built # None
    => /\ built[1].length = AttributeSectionLength(built[1].attributes) % U16
       /\ built[1].attributes = calls

\* C11 witness: two different attributes appended, the first with a value
\* length that is no multiple of 4.
C11_Witness ==
  /\ built # None /\ Len(calls) = 2 /\ calls[1] # calls[2]
  /\ Len(calls[1].value) % 4 # 0
  /\ built[1].length = 8 + AlignedLength(Len(calls[1].value)) + AlignedLength(Len(calls[2].value))

\* C12: a packet returned by newPacketFromBytes has a length field equal to
\* the sum over its parsed attributes of 4 + alignedLength(value length).
C12_ParsedLengthIsSum ==
  (parsed # None /\ parsed[1].kind = "ok")
    => parsed[1].packet[1].length = AttributeSectionLength(parsed[1].packet[1].attributes)

\* type, length, value and alignedLength(length) - length zero filler bytes
\* for each attribute
RECURSIVE PaddedAttributes(_)
PaddedAttributes(as) ==
  IF as = << >> THEN << >>
  ELSE PutUint16(Head(as).types) \o PutUint16(Head(as).length) \o Head(as).value
         \o [j \in 1..(AlignedLength(Len(Head(as).value)) - Len(Head(as).value)) |-> 0]
         \o PaddedAttributes(Tail(as))

\* C13: bytes() emits, behind the header and the transaction ID, each
\* attribute as type, length, value and filler up to the next multiple of 4,
\* so that as many bytes follow the transaction ID as the length field says.
C13_PaddedLayout ==
  (wire # None /\ AttributeSectionLength(built[1].attributes) < U16)
    => /\ wire[1] = PutUint16(built[1].types) \o PutUint16(built[1].length)
                      \o built[1].transId \o PaddedAttributes(built[1].attributes)
       /\ Len(wire[1]) - HeaderLen = built[1].length

\* every attribute value has a length that is a multiple of 4
AllAligned(as) == \A k \in 1..Len(as) : Len(as[k].value) % 4 = 0

\* C14 as stated: with attribute values of lengths that are multiples of 4,
\* bytes() has 24 + length field bytes.
C14_SerializedLength24 ==
  (wire # None /\ AllAligned(built[1].attributes))
    => Len(wire[1]) = 24 + built[1].length

\* C14 amended: with attribute values of lengths that are multiples of 4,
\* bytes() has 20 bytes plus the sum over the attributes of 4 + value
\* length, which is 20 + length field while that sum is below 65536.
C14_SerializedLength20 ==
  (wire # None /\ AllAligned(built[1].attributes))
    => /\ Len(wire[1]) = HeaderLen + AttributeSectionLength(built[1].attributes)
       /\ AttributeSectionLength(built[1].attributes) < U16
            => Len(wire[1]) = HeaderLen + built[1].length

\* C14 witness: a serialized packet with two attributes, one with a 4-byte
\* value and one with an empty value.
C14_Witness ==
  /\ wire # None /\ Len(built[1].attributes) = 2
  /\ Len(built[1].attributes[1].value) = 4 /\ Len(built[1].attributes[2].value) = 0
  /\ Len(wire[1]) = 32

(***************************************************************************)
(* Further properties of the exchange.                                     *)
(***************************************************************************)
\* C15: no step of send changes the request (transaction ID, type, length,
\* attributes), and every datagram it writes carries, at bytes 4..19, the
\* request's transaction ID, which begins with the magic cookie.
C15_RequestUnchanged ==
  [][ /\ v' = v
      /\ ev'.op = "write"
           => /\ Len(ev'.data) >= HeaderLen
              /\ SliceBytes(Exact(ev'.data), 4, 20) = v.transId
              /\ SliceBytes(Exact(ev'.data), 4, 8) = MagicCookie
              /\ ev'.data = bytes(v) ]_vars

\* C15 witness: a retransmission written after datagrams were discarded,
\* carrying the request's transaction ID.
C15_Witness ==
  /\ ev.op = "write" /\ pc = "arm" /\ writes >= 2 /\ discards > 0
  /\ SliceBytes(Exact(ev.data), 4, 20) = v.transId

\* the three terminal outcomes of send
Matched ==
  /\ pc = "returned" /\ ret # None
  /\ ret[1].addr # "nil" /\ ret[1].pkt # << >> /\ ret[1].err = "nil"
TimedOut == pc = "returned" /\ ret = Return("nil", << >>, "nil")
Failed ==
  /\ pc = "returned" /\ ret # None
  /\ ret[1].addr = "nil" /\ ret[1].pkt = << >> /\ ret[1].err # "nil"

\* C16: an exchange never stops anywhere but in a return with one of the
\* outcomes Matched, TimedOut, Failed: as long as it has not returned, it
\* can take a step.
C16_EndsInTerminalOutcome ==
  \/ ENABLED Next
  \/ Matched
  \/ TimedOut
  \/ Failed

\* C20: when send has returned, its result is (sender, packet, no error)
\* with the packet's transaction ID equal to the request's, or (no address,
\* no packet, error), or (no address, no packet, no error) after 9 writes.
C20_ResultShapes ==
  pc = "returned"
    => /\ ret # None
       /\ \/ Matched /\ ret[1].pkt[1].transId = v.transId
          \/ Failed
          \/ TimedOut /\ writes = MaxAttempts
       /\ ret[1].pkt # << >> => ret[1].err = "nil"
       /\ ret[1].err # "nil" => ret[1].addr = "nil"

\* C20 witness: a matching reply returned in a retransmission attempt.
C20_Witness ==
  Matched /\ i >= 1 /\ ret[1].addr = "other" /\ ret[1].pkt[1].transId = v.transId

(***************************************************************************)
(* Properties of the accessors.                                            *)
(***************************************************************************)
\* the positions of the attributes of as with a type in ts
Positions(as, ts) == { k \in 1..Len(as) : as[k].types \in ts }
\* the least element of a nonempty set of numbers
Least(S) == CHOOSE k \in S : \A j \in S : k <= j
XorTypes == { attributeXorMappedAddress, attributeXorMappedAddressExp }

\* C17: each accessor returns the decoding of the attribute at the least
\* position holding its type (for xorMappedAddr either XOR-mapped code,
\* decoded with the packet's transaction ID), absent when no position holds
\* it; the packet is as the addAttribute calls left it.
C17_FirstMatchingAttribute ==
  hosts # None
    => LET as == built[1].attributes
           Plain(ts) == IF Positions(as, ts) = {} THEN << >>
                        ELSE address(as[Least(Positions(as, ts))])
       IN
       /\ hosts[1].source = Plain({attributeSourceAddress})
       /\ hosts[1].mapped = Plain({attributeMappedAddress})
       /\ hosts[1].changed = Plain({attributeChangedAddress})
       /\ hosts[1].xorMapped =
            IF Positions(as, XorTypes) = {} THEN << >>
            ELSE xorMappedAddr(as[Least(Positions(as, XorTypes))], built[1].transId)
       /\ as = calls
       /\ built[1].transId = MagicCookie \o RandA

\* C17 witness: two MAPPED-ADDRESS attributes with different addresses; the
\* accessor returned the first, 203.0.113.5:54321.
C17_Witness ==
  /\ hosts # None /\ Len(built[1].attributes) = 2
  /\ built[1].attributes[1].types = attributeMappedAddress
  /\ built[1].attributes[2].types = attributeMappedAddress
  /\ built[1].attributes[2].value = << 0, 1, 13, 150, 192, 0, 2, 1 >>
  /\ hosts[1].mapped = << [ip |-> << 203, 0, 113, 5 >>, port |-> 54321] >>
  /\ hosts[1].xorMapped = << >>

(***************************************************************************)
(* Properties of the parsed packet's transaction ID.                       *)
(***************************************************************************)
\* C19: once newPacketFromBytes has returned a packet, no later step (a store
\* into positions 4..19 of the input buffer included) changes the packet's
\* transaction ID.
C19_TransIdIndependentOfBuffer ==
  [][(parsed # None /\ parsed[1].kind = "ok")
       => parsed'[1].packet[1].transId = parsed[1].packet[1].transId]_vars

(***************************************************************************)
(* Properties of two exchanges on one socket.                              *)
(***************************************************************************)
\* the step just taken was a read, by one exchange, of a datagram carrying
\* the transaction ID of another exchange
ForeignRead(e, state) ==
  /\ e # None
  /\ Len(e[1].data) >= HeaderLen
  /\ \E y \in Exchanges \ { e[1].by } :
       SliceBytes(Exact(e[1].data), 4, 20) = state[y].v.transId

\* C18: when an exchange reads a datagram that carries the other exchange's
\* transaction ID, the datagram leaves the socket's queue and is not put
\* back, and neither exchange changes: the reader keeps reading and the
\* other exchange is handed nothing.
C18_ForeignReplyDiscarded ==
  [][ForeignRead(rd', xs)
       => /\ conn[1].queue # << >>
          /\ Head(conn[1].queue) = rd'[1].data
          /\ conn'[1].queue = Tail(conn[1].queue)
          /\ xs' = xs]_vars

\* C18 witness: exchange A has ended with no response after its nine
\* attempts, although a reply carrying A's transaction ID was taken from the
\* socket by B while A was blocked in ReadFrom within the deadline A had set.
C18_Witness ==
  /\ xs # << >>
  /\ xs["A"].pc = "returned"
  /\ xs["A"].ret = Return("nil", << >>, "nil")
  /\ xs["A"].i = MaxAttempts
  /\ "A" \in lost

====
